---- MODULE Spec2Model ----
(***************************************************************************)
(* Model of the dexxt Telegram webhook handler (api/index.go).             *)
(*                                                                         *)
(* Go strings are byte strings: they are modelled as sequences of byte     *)
(* values 0..255.  The Go source indexes strings from 0, TLA+ sequences    *)
(* from 1, so the byte finglish[i] of the source is finglish[i + 1] here.  *)
(***************************************************************************)
EXTENDS Integers, Sequences, FiniteSets, TLC

(* ---------------------------------------------------------------------- *)
(* Bounds of the model.                                                    *)
(* ---------------------------------------------------------------------- *)

\* Longest input, in characters, over the small alphabet CoreChars.
MaxLen == 3

\* Longest input, in characters, over the whole alphabet AllChars.
MaxWide == 2

\* Number of webhook deliveries handled one after the other.
MaxInvocations == 2

VARIABLES
    \* getFarsi
    input,      \* the argument getFarsi was called with
    finglish,   \* parameter finglish of getFarsi
    i,          \* loop variable i of getFarsi (0-based)
    farsi,      \* local farsi of getFarsi
    spc,        \* position in getFarsi: "loop", "returned", "again"
    last,       \* what the last loop iteration did
    second,     \* result of getFarsi applied to the returned string
    \* Handler
    hpc,          \* position of the invocation of Handler in progress
    invocation,   \* number of invocations of Handler so far
    request,      \* the payload of the request r of Handler
    chatID,       \* parameter chatID of sendToClient
    incomingText, \* parameter incomingText of sendToClient
    text,         \* local text of sendToClient
    ret,          \* the values sendToClient returned
    calls,        \* outbound HTTP calls of this invocation, in order
    logs,         \* lines logged by this invocation, in order
    svc,          \* how the call to the transliteration service ended
    tg,           \* how the call to the messaging platform ended
    service,      \* the object the service answers for each text asked
    done          \* the replies the platform accepted so far

scanVars == <<input, finglish, i, farsi, spc, last, second>>

handlerVars == <<hpc, invocation, request, chatID, incomingText, text, ret,
                 calls, logs, svc, tg, service, done>>

vars == <<scanVars, handlerVars>>

(* ---------------------------------------------------------------------- *)
(* Strings.                                                                *)
(* ---------------------------------------------------------------------- *)

\* Go's string(b) for a byte b: the UTF-8 encoding of the code point U+00b.
\* A byte below 0x80 gives the one-byte string, a byte from 0x80 up gives
\* the two bytes 0xC0|b>>6, 0x80|b&0x3F.
ByteToString(b) ==
    IF b < 128 THEN <<b>> ELSE <<192 + (b \div 64), 128 + (b % 64)>>

\* peekChar with the bound test off by one: the last position is never peeked.
peekCharShort(index, str) ==
    IF index + 2 < Len(str) THEN ByteToString(str[index + 2]) ELSE <<>>

\* peekChar returns the next char in the given string if exists.
peekChar(index, str) ==
    IF index + 1 < Len(str) THEN ByteToString(str[index + 2]) ELSE <<>>

\* The positions of str that peekChar(index, str) reads.
peekReads(index, str) ==
    IF index + 1 < Len(str) THEN {index + 1} ELSE {}

\* The letters whose case of the switch calls peekChar: c, g, k, s.
PeekingCases == {99, 103, 107, 115}

\* The glyph the switch appends for byte b when the two-letter rule does not
\* apply; the default case converts the byte with string().
SingleGlyph(b) ==
    CASE b = 97  -> <<216, 167>>
      [] b = 98  -> <<216, 168>>
      [] b = 99  -> <<216, 179>>
      [] b = 100 -> <<216, 175>>
      [] b = 101 -> <<>>
      [] b = 102 -> <<217, 129>>
      [] b = 103 -> <<218, 175>>
      [] b = 104 -> <<217, 135>>
      [] b = 105 -> <<219, 140>>
      [] b = 106 -> <<216, 172>>
      [] b = 107 -> <<218, 169>>
      [] b = 108 -> <<217, 132>>
      [] b = 109 -> <<217, 133>>
      [] b = 110 -> <<217, 134>>
      [] b = 111 -> <<217, 136>>
      [] b = 112 -> <<217, 190>>
      [] b = 113 -> <<218, 169>>
      [] b = 114 -> <<216, 177>>
      [] b = 115 -> <<216, 179>>
      [] b = 116 -> <<216, 170>>
      [] b = 117 -> <<217, 136>>
      [] b = 118 -> <<217, 136>>
      [] b = 119 -> <<217, 136>>
      [] b = 120 -> <<216, 174>>
      [] b = 121 -> <<219, 140>>
      [] b = 122 -> <<216, 178>>
      [] OTHER   -> ByteToString(b)

\* The glyph the switch appends for c, g, k, s when peekChar gives "h".
DigraphGlyph(b) ==
    CASE b = 99  -> <<218, 134>>
      [] b = 103 -> <<216, 186>>
      [] b = 107 -> <<216, 174>>
      [] b = 115 -> <<216, 180>>

\* One iteration of the loop of getFarsi at cursor idx of str: the string
\* appended to farsi, the number of positions the cursor moves (the i++ of
\* the case and the i++ of the for statement), the positions of str read.
LoopBody(idx, str) ==
    LET b == str[idx + 1] IN
    IF b \in PeekingCases
    THEN IF peekChar(idx, str) = <<104>>
         THEN [emit |-> DigraphGlyph(b), adv |-> 2,
               reads |-> {idx} \cup peekReads(idx, str)]
         ELSE [emit |-> SingleGlyph(b), adv |-> 1,
               reads |-> {idx} \cup peekReads(idx, str)]
    ELSE [emit |-> SingleGlyph(b), adv |-> 1, reads |-> {idx}]

RECURSIVE getFarsiFrom(_, _)
getFarsiFrom(idx, str) ==
    IF idx < Len(str)
    THEN LoopBody(idx, str).emit
             \o getFarsiFrom(idx + LoopBody(idx, str).adv, str)
    ELSE <<>>

\* getFarsi constructs and returns the Farsi string of the given Finglish.
getFarsi(str) == getFarsiFrom(0, str)

(* ---------------------------------------------------------------------- *)
(* Inputs of getFarsi.                                                     *)
(* ---------------------------------------------------------------------- *)

\* Characters as UTF-8 byte strings: a..z, 'S', '5', '!', ' ', and the
\* glyphs U+0627 and U+0634 of the target script.
Lowercase == {<<b>> : b \in 97..122}

Others == {<<83>>, <<53>>, <<33>>, <<32>>, <<216, 167>>, <<216, 180>>}

AllChars == Lowercase \cup Others

\* c, g, k, s, h, e, a and the characters outside the table.
CoreChars == {<<99>>, <<103>>, <<107>>, <<115>>, <<104>>, <<101>>, <<97>>}
                 \cup Others

RECURSIVE Flatten(_)
Flatten(cs) == IF cs = <<>> THEN <<>> ELSE Head(cs) \o Flatten(Tail(cs))

SeqsUpTo(S, n) == UNION {[1..k -> S] : k \in 0..n}

Inputs == {Flatten(cs) : cs \in SeqsUpTo(CoreChars, MaxLen)}
              \cup {Flatten(cs) : cs \in SeqsUpTo(AllChars, MaxWide)}

NoStep == [pos |-> -1, emit |-> <<>>, adv |-> 0, reads |-> {}]

(* ---------------------------------------------------------------------- *)
(* getFarsi as a state machine.                                            *)
(* ---------------------------------------------------------------------- *)

InitScan ==
    /\ input \in Inputs
    /\ finglish = input
    /\ i = 0
    /\ farsi = <<>>
    /\ spc = "loop"
    /\ last = NoStep
    /\ second = <<>>

\* The loop with farsi = ... in place of farsi += ...: the output built so
\* far is dropped at every iteration.
ScanStepAssign ==
    /\ spc = "loop"
    /\ i < Len(finglish)
    /\ LET r == LoopBody(i, finglish) IN
        /\ farsi' = r.emit
        /\ i' = i + r.adv
        /\ last' = [pos |-> i, emit |-> r.emit, adv |-> r.adv,
                    reads |-> r.reads]
    /\ UNCHANGED <<input, finglish, spc, second>>
    /\ UNCHANGED handlerVars

\* for i := 0; i < len(finglish); i++ { switch finglish[i] ... }
ScanStep ==
    /\ spc = "loop"
    /\ i < Len(finglish)
    /\ LET r == LoopBody(i, finglish) IN
        /\ farsi' = farsi \o r.emit
        /\ i' = i + r.adv
        /\ last' = [pos |-> i, emit |-> r.emit, adv |-> r.adv,
                    reads |-> r.reads]
    /\ UNCHANGED <<input, finglish, spc, second>>
    /\ UNCHANGED handlerVars

\* The loop condition fails: return farsi.
ScanReturn ==
    /\ spc = "loop"
    /\ i >= Len(finglish)
    /\ spc' = "returned"
    /\ UNCHANGED <<input, finglish, i, farsi, last, second>>
    /\ UNCHANGED handlerVars

\* getFarsi is called on the string it returned.
ScanAgain ==
    /\ spc = "returned"
    /\ second' = getFarsi(farsi)
    /\ spc' = "again"
    /\ UNCHANGED <<input, finglish, i, farsi, last>>
    /\ UNCHANGED handlerVars

NextScan == ScanStep \/ ScanReturn \/ ScanAgain

\* No call of getFarsi is in progress.
ScanIdle ==
    /\ input = <<>>
    /\ finglish = <<>>
    /\ i = 0
    /\ farsi = <<>>
    /\ spc = "idle"
    /\ last = NoStep
    /\ second = <<>>

(* ---------------------------------------------------------------------- *)
(* Handler: values.                                                        *)
(* ---------------------------------------------------------------------- *)

\* "/start"
StartCommand == <<47, 115, 116, 97, 114, 116>>

\* Message texts of the updates delivered: "/start", "/START", "/Start",
\* "sh", "Sh" and the empty text.
Texts == {StartCommand, <<47, 83, 84, 65, 82, 84>>, <<47, 83, 116, 97, 114, 116>>,
          <<115, 104>>, <<83, 104>>, <<>>}

\* Conversation identifiers.
Chats == {1, 2}

\* The body of a request the JSON decoder rejects; the update stays zero.
BadPayload == [decodes |-> FALSE, update_id |-> 0, chat |-> 0, text |-> <<>>]

\* Request bodies: one that does not decode, and the updates that do, with
\* update_id 0 (or absent) or 7.
Payloads ==
    {BadPayload} \cup
    [decodes : {TRUE}, update_id : {0, 7}, chat : Chats, text : Texts]

\* The text passed on as it came, without strings.ToLower.
ToLowerNoop(str) == str

\* strings.ToLower on a string of ASCII characters (all of Texts is ASCII):
\* A..Z become a..z, every other byte is kept.
ToLower(str) ==
    [k \in 1..Len(str) |-> IF str[k] \in 65..90 THEN str[k] + 32 ELSE str[k]]

\* The JSON objects the transliteration service answers with, as the list
\* of their values in the order of the response body: one value (U+0634),
\* or two values (U+0633, U+0647) under two keys.
Objects == {<< <<216, 180>> >>, << <<216, 179>>, <<217, 135>> >>}

\* The texts the service can be asked about.
Askable == {ToLower(t) : t \in Texts} \ {StartCommand}

\* The orders in which range can visit a map of n entries.
RangeOrders(n) ==
    {p \in [1..n -> 1..n] : \A a, b \in 1..n : p[a] = p[b] => a = b}

\* for _, v := range result { farsi += v }, visiting in the order p.
RECURSIVE ConcatInOrder(_, _, _)
ConcatInOrder(values, p, k) ==
    IF k > Len(values) THEN <<>>
    ELSE values[p[k]] \o ConcatInOrder(values, p, k + 1)

\* Bodies of the responses of the messaging platform.
OkBody == "{ok:true}"

ErrorBody == "{ok:false}"

LogLine(line, err, body, chat, txt) ==
    [line |-> line, err |-> err, body |-> body, chat |-> chat, text |-> txt]

\* parseIncomingRequest without the test of the update id.
parseAnyUpdateId(r) ==
    IF ~r.decodes
    THEN [err |-> "decode",
          logs |-> <<LogLine("could not decode incoming update", "decode",
                             "", 0, <<>>)>>]
    ELSE [err |-> "nil", logs |-> <<>>]

\* parseIncomingRequest parses incoming update to Update.
parseIncomingRequest(r) ==
    IF ~r.decodes
    THEN [err |-> "decode",
          logs |-> <<LogLine("could not decode incoming update", "decode",
                             "", 0, <<>>)>>]
    ELSE IF r.update_id = 0
    THEN [err |-> "invalid update id",
          logs |-> <<LogLine("invalid update id", "", "", 0, <<>>)>>]
    ELSE [err |-> "nil", logs |-> <<>>]

NoReturn == [body |-> "", err |-> "none"]

(* ---------------------------------------------------------------------- *)
(* Handler as a state machine.                                             *)
(* ---------------------------------------------------------------------- *)

InitHandler ==
    /\ hpc = "idle"
    /\ invocation = 0
    /\ request = BadPayload
    /\ chatID = 0
    /\ incomingText = <<>>
    /\ text = <<>>
    /\ ret = NoReturn
    /\ calls = <<>>
    /\ logs = <<>>
    /\ svc = "none"
    /\ tg = "none"
    /\ service = [t \in Askable |-> <<>>]
    /\ done = {}

\* The server invokes Handler and parseIncomingRequest fails: log, return.
HandlerRejects ==
    /\ hpc \in {"idle", "end"}
    /\ invocation < MaxInvocations
    /\ \E r \in Payloads :
        /\ parseIncomingRequest(r).err # "nil"
        /\ request' = r
        /\ logs' = parseIncomingRequest(r).logs \o
                     <<LogLine("error parsing incoming update",
                               parseIncomingRequest(r).err, "", 0, <<>>)>>
    /\ invocation' = invocation + 1
    /\ hpc' = "end"
    /\ chatID' = 0
    /\ incomingText' = <<>>
    /\ text' = <<>>
    /\ ret' = NoReturn
    /\ calls' = <<>>
    /\ svc' = "none"
    /\ tg' = "none"
    /\ UNCHANGED <<service, done>>
    /\ UNCHANGED scanVars

\* The server invokes Handler and the update parses: sendToClient is called
\* with the chat id and the lowercased text.
HandlerAccepts ==
    /\ hpc \in {"idle", "end"}
    /\ invocation < MaxInvocations
    /\ \E r \in Payloads :
        /\ parseIncomingRequest(r).err = "nil"
        /\ request' = r
        /\ logs' = parseIncomingRequest(r).logs
        /\ chatID' = r.chat
        /\ incomingText' = ToLower(r.text)
    /\ invocation' = invocation + 1
    /\ hpc' = "sendToClient"
    /\ text' = <<>>
    /\ ret' = NoReturn
    /\ calls' = <<>>
    /\ svc' = "none"
    /\ tg' = "none"
    /\ UNCHANGED <<service, done>>
    /\ UNCHANGED scanVars

\* if incomingText == "/start" { return "", nil }
SendToClientStart ==
    /\ hpc = "sendToClient"
    /\ incomingText = StartCommand
    /\ ret' = [body |-> "", err |-> "nil"]
    /\ hpc' = "returned"
    /\ UNCHANGED <<invocation, request, chatID, incomingText, text, calls,
                   logs, svc, tg, service, done>>
    /\ UNCHANGED scanVars

\* getFarsiAPI builds the request (http.NewRequest cannot fail on the fixed
\* method and URL) and sends it with the text as body.
CallService ==
    /\ hpc = "sendToClient"
    /\ incomingText # StartCommand
    /\ calls' = Append(calls, [to |-> "service", chat |-> 0,
                               text |-> incomingText])
    /\ hpc' = "getFarsiAPI"
    /\ UNCHANGED <<invocation, request, chatID, incomingText, text, ret,
                   logs, svc, tg, service, done>>
    /\ UNCHANGED scanVars

\* A failed getFarsiAPI whose error sendToClient drops: it posts the empty
\* text all the same.
ServiceFailsUnchecked ==
    /\ hpc = "getFarsiAPI"
    /\ \E e \in {"err sending request", "err reading response body",
                 "err unMarshaling response body"} : svc' = e
    /\ text' = <<>>
    /\ logs' = Append(logs, LogLine("Sending", "", "", chatID, <<>>))
    /\ calls' = Append(calls, [to |-> "telegram", chat |-> chatID,
                               text |-> <<>>])
    /\ hpc' = "PostForm"
    /\ UNCHANGED <<invocation, request, chatID, incomingText, ret, tg,
                   service, done>>
    /\ UNCHANGED scanVars

\* getFarsiAPI fails: the request is not answered, the body cannot be read
\* or it is not a JSON object of strings.  sendToClient returns "", err.
ServiceFails ==
    /\ hpc = "getFarsiAPI"
    /\ \E e \in {"err sending request", "err reading response body",
                 "err unMarshaling response body"} :
        /\ svc' = e
        /\ ret' = [body |-> "", err |-> e]
    /\ hpc' = "returned"
    /\ UNCHANGED <<invocation, request, chatID, incomingText, text, calls,
                   logs, tg, service, done>>
    /\ UNCHANGED scanVars

\* getFarsiAPI succeeds: the service answers a JSON object (the same object
\* whenever it is asked the same text), range visits its values in some
\* order, and sendToClient posts the concatenation to the platform.
ServiceAnswers ==
    /\ hpc = "getFarsiAPI"
    /\ \E obj \in Objects :
        /\ service[incomingText] \in {<<>>, obj}
        /\ service' = [service EXCEPT ![incomingText] = obj]
        /\ \E p \in RangeOrders(Len(obj)) :
            LET t == ConcatInOrder(obj, p, 1) IN
            /\ text' = t
            /\ logs' = Append(logs, LogLine("Sending", "", "", chatID, t))
            /\ calls' = Append(calls, [to |-> "telegram", chat |-> chatID,
                                       text |-> t])
    /\ svc' = "ok"
    /\ hpc' = "PostForm"
    /\ UNCHANGED <<invocation, request, chatID, incomingText, ret, tg, done>>
    /\ UNCHANGED scanVars

\* http.PostForm fails.
PostFails ==
    /\ hpc = "PostForm"
    /\ tg' = "transport"
    /\ logs' = Append(logs, LogLine("error when posting text to the chat",
                                    "post", "", 0, <<>>))
    /\ ret' = [body |-> "", err |-> "post"]
    /\ hpc' = "returned"
    /\ UNCHANGED <<invocation, request, chatID, incomingText, text, calls,
                   svc, service, done>>
    /\ UNCHANGED scanVars

\* io.ReadAll of the platform's response fails.
PostReadFails ==
    /\ hpc = "PostForm"
    /\ tg' = "read"
    /\ logs' = Append(logs, LogLine("error in parsing telegram answer",
                                    "read", "", 0, <<>>))
    /\ ret' = [body |-> "", err |-> "read"]
    /\ hpc' = "returned"
    /\ UNCHANGED <<invocation, request, chatID, incomingText, text, calls,
                   svc, service, done>>
    /\ UNCHANGED scanVars

\* The platform answers, with a result or with an error body (the status is
\* not looked at): sendToClient returns the body and no error.
PostAnswered ==
    /\ hpc = "PostForm"
    /\ \E b \in {OkBody, ErrorBody} :
        /\ tg' = (IF b = OkBody THEN "ok" ELSE "error body")
        /\ logs' = Append(logs, LogLine("Body of Telegram Response", "", b,
                                        0, <<>>))
        /\ ret' = [body |-> b, err |-> "nil"]
    /\ hpc' = "returned"
    /\ UNCHANGED <<invocation, request, chatID, incomingText, text, calls,
                   svc, service, done>>
    /\ UNCHANGED scanVars

\* Handler logs the outcome of sendToClient and returns.
HandlerLogs ==
    /\ hpc = "returned"
    /\ logs' = Append(logs,
                 IF ret.err # "nil"
                 THEN LogLine("got error from telegram", ret.err, ret.body,
                              0, <<>>)
                 ELSE LogLine("successfully distributed to chat id", "", "",
                              request.chat, <<>>))
    /\ done' = IF tg = "ok"
               THEN done \cup {[chat |-> request.chat, text |-> request.text,
                                submitted |-> incomingText, reply |-> text]}
               ELSE done
    /\ hpc' = "end"
    /\ UNCHANGED <<invocation, request, chatID, incomingText, text, ret,
                   calls, svc, tg, service>>
    /\ UNCHANGED scanVars

NextHandler ==
    \/ HandlerRejects
    \/ HandlerAccepts
    \/ SendToClientStart
    \/ CallService
    \/ ServiceFails
    \/ ServiceAnswers
    \/ PostFails
    \/ PostReadFails
    \/ PostAnswered
    \/ HandlerLogs

(* ---------------------------------------------------------------------- *)
(* Specifications.                                                         *)
(* ---------------------------------------------------------------------- *)

\* getFarsi on every input of Inputs.
Init == InitScan /\ InitHandler

Next == NextScan

Spec == Init /\ [][Next]_vars

\* Handler on MaxInvocations deliveries, one after the other.
InitH == ScanIdle /\ InitHandler

NextH == NextHandler

SpecHandler == InitH /\ [][NextH]_vars

(* ---------------------------------------------------------------------- *)
(* Properties of getFarsi.                                                 *)
(* ---------------------------------------------------------------------- *)

\* The glyphs the specification gives for ch, gh, kh, sh.
SpecDigraph == (99 :> <<218, 134>>) @@ (103 :> <<216, 186>>)
                   @@ (107 :> <<216, 174>>) @@ (115 :> <<216, 180>>)

\* The single-letter table of the specification, a to z; e is silent.
SpecTable ==
    (97 :> <<216, 167>>) @@ (98 :> <<216, 168>>) @@ (99 :> <<216, 179>>)
    @@ (100 :> <<216, 175>>) @@ (101 :> <<>>) @@ (102 :> <<217, 129>>)
    @@ (103 :> <<218, 175>>) @@ (104 :> <<217, 135>>) @@ (105 :> <<219, 140>>)
    @@ (106 :> <<216, 172>>) @@ (107 :> <<218, 169>>) @@ (108 :> <<217, 132>>)
    @@ (109 :> <<217, 133>>) @@ (110 :> <<217, 134>>) @@ (111 :> <<217, 136>>)
    @@ (112 :> <<217, 190>>) @@ (113 :> <<218, 169>>) @@ (114 :> <<216, 177>>)
    @@ (115 :> <<216, 179>>) @@ (116 :> <<216, 170>>) @@ (117 :> <<217, 136>>)
    @@ (118 :> <<217, 136>>) @@ (119 :> <<217, 136>>) @@ (120 :> <<216, 174>>)
    @@ (121 :> <<219, 140>>) @@ (122 :> <<216, 178>>)

RECURSIVE SpecConcat(_)
SpecConcat(str) ==
    IF str = <<>> THEN <<>> ELSE SpecTable[Head(str)] \o SpecConcat(Tail(str))

\* The iteration recorded in last met c, g, k or s followed by h.
LastAtDigraph ==
    /\ last.pos >= 0
    /\ finglish[last.pos + 1] \in DOMAIN SpecDigraph
    /\ last.pos + 1 < Len(finglish)
    /\ finglish[last.pos + 2] = 104

\* The iteration recorded in last met c, g, k or s not followed by h.
LastAtLoneLetter ==
    /\ last.pos >= 0
    /\ finglish[last.pos + 1] \in DOMAIN SpecDigraph
    /\ \/ last.pos + 1 >= Len(finglish)
       \/ finglish[last.pos + 2] # 104

\* C1: at every cursor position the scan reaches, c, g, k or s followed by
\* h consumes two positions and emits the one glyph of the digraph; c, g, k
\* or s that is last or not followed by h consumes one position and emits
\* its single-letter glyph; no iteration reads a position past the end.
C1_DigraphPrecedence ==
    /\ LastAtDigraph =>
           /\ last.emit = SpecDigraph[finglish[last.pos + 1]]
           /\ last.adv = 2
           /\ i = last.pos + 2
    /\ LastAtLoneLetter =>
           /\ last.emit = SpecTable[finglish[last.pos + 1]]
           /\ last.adv = 1
           /\ i = last.pos + 1
    /\ \A r \in last.reads : 0 <= r /\ r < Len(finglish)
    /\ i <= Len(finglish)

\* "shs" was scanned: sh gave one glyph, the trailing s its own glyph.
C1_Witness ==
    /\ spc = "returned"
    /\ input = <<115, 104, 115>>
    /\ farsi = <<216, 180, 216, 179>>
    /\ LastAtLoneLetter

\* The input is made of a..z only and no c, g, k, s is followed by h.
PlainLetters(str) ==
    /\ \A k \in 1..Len(str) : str[k] \in 97..122
    /\ \A k \in 1..(Len(str) - 1) :
           str[k] \in DOMAIN SpecDigraph => str[k + 1] # 104

\* C2: for an input of lowercase letters with no c, g, k, s before an h the
\* result is the concatenation of the table glyphs of its letters, every e
\* giving nothing; the empty input and an input of e's give the empty string.
C2_SingleLetterTable ==
    (spc # "loop" /\ PlainLetters(input)) => farsi = SpecConcat(input)

\* "qe" was scanned: q gave its glyph and e nothing.
C2_Witness ==
    /\ spc = "returned"
    /\ input = <<113, 101>>
    /\ farsi = <<218, 169>>

\* No byte of the string has a case of its own in the switch.
NoTableEntry(str) == \A k \in 1..Len(str) : str[k] \notin 97..122

\* C3: an input whose characters have no table entry (uppercase letters,
\* digits, punctuation, whitespace, glyphs of the target script) is returned
\* unchanged.
C3_PassThrough ==
    (spc # "loop" /\ NoTableEntry(input)) => farsi = input

\* C4: applying getFarsi to its own result gives that result again.
C4_TwiceIsOnce ==
    spc = "again" => second = farsi

(* ---------------------------------------------------------------------- *)
(* Properties of Handler.                                                  *)
(* ---------------------------------------------------------------------- *)

\* Two bytes that are equal or the two cases of one ASCII letter.
CaseVariants(x, y) ==
    \/ x = y
    \/ x \in 65..90 /\ y = x + 32
    \/ y \in 65..90 /\ x = y + 32

\* Two texts that differ at most in letter case.
SameUpToCase(s, t) ==
    /\ Len(s) = Len(t)
    /\ \A k \in 1..Len(s) : CaseVariants(s[k], t[k])

\* An invocation has started and its update is valid.
ValidUpdate == hpc # "idle" /\ request.decodes /\ request.update_id # 0

\* The positions of calls that are send-message calls.
TelegramCalls == {k \in DOMAIN calls : calls[k].to = "telegram"}

\* The positions of calls that are calls to the transliteration service.
ServiceCalls == {k \in DOMAIN calls : calls[k].to = "service"}

\* This invocation logged the success outcome.
LoggedSuccess ==
    \E k \in DOMAIN logs : logs[k].line = "successfully distributed to chat id"

\* This invocation logged the failure outcome.
LoggedFailure ==
    \E k \in DOMAIN logs : logs[k].line = "got error from telegram"

\* C5: for a valid update whose text is /start in any letter case, the
\* invocation makes no call to the transliteration service and no
\* send-message call, and sendToClient returns no error.
C5_StartShortCircuit ==
    (ValidUpdate /\ SameUpToCase(request.text, StartCommand)) =>
        /\ calls = <<>>
        /\ hpc \in {"sendToClient", "returned", "end"}
        /\ hpc \in {"returned", "end"} => ret = [body |-> "", err |-> "nil"]

\* An invocation for "/START" has ended without any outbound call.
C5_Witness ==
    /\ hpc = "end"
    /\ ValidUpdate
    /\ request.text = <<47, 83, 84, 65, 82, 84>>
    /\ calls = <<>>
    /\ ret.err = "nil"

\* C6: for a payload that fails to decode or decodes with update_id 0, the
\* invocation ends after logging the parse error, without any outbound call.
C6_ParseFailureDrops ==
    (hpc # "idle" /\ (~request.decodes \/ request.update_id = 0)) =>
        /\ calls = <<>>
        /\ hpc = "end"
        /\ ret = NoReturn
        /\ logs[Len(logs)].line = "error parsing incoming update"
        /\ ~LoggedSuccess /\ ~LoggedFailure

\* An invocation for a decodable update with update_id 0 and text "sh" has
\* ended.
C6_Witness ==
    /\ hpc = "end"
    /\ request.decodes
    /\ request.update_id = 0
    /\ request.text = <<115, 104>>
    /\ calls = <<>>

\* C7: an invocation makes at most one send-message call, and only after
\* its call to the transliteration service has succeeded; when that call
\* fails, no send-message call is made and sendToClient returns an error.
C7_SendAfterTransliteration ==
    /\ Cardinality(TelegramCalls) <= 1
    /\ \A k \in TelegramCalls :
           /\ svc = "ok"
           /\ \E j \in ServiceCalls : j < k
    /\ svc \notin {"none", "ok"} =>
           /\ TelegramCalls = {}
           /\ hpc \in {"returned", "end"}
           /\ ret.err = svc

\* An invocation has ended after calling the service and then the platform.
C7_Witness ==
    /\ hpc = "end"
    /\ svc = "ok"
    /\ Len(calls) = 2
    /\ calls[1].to = "service"
    /\ calls[2].to = "telegram"

\* C8: when the send-message call fails at transport, its response cannot
\* be read, or the platform answers with an error body, the invocation ends
\* with the failure outcome logged, never with the success outcome.
C8_DeliveryFailureReported ==
    (hpc = "end" /\ tg \in {"transport", "read", "error body"}) =>
        /\ LoggedFailure
        /\ ~LoggedSuccess

\* C9: two valid updates of one conversation whose texts differ only in
\* letter case submit the same text for transliteration and get the same
\* reply.
C9_CaseFoldSameReply ==
    \A a, b \in done :
        (a.chat = b.chat /\ SameUpToCase(a.text, b.text)) =>
            /\ a.submitted = b.submitted
            /\ a.reply = b.reply

\* C10: the success outcome is logged only by an invocation that made a
\* send-message call and read its response.
C10_SuccessOnlyAfterSend ==
    LoggedSuccess =>
        /\ TelegramCalls # {}
        /\ tg \in {"ok", "error body"}

====
